---- MODULE Spec2Model ----
(***************************************************************************)
(* Model of interceptXMLToolCalls                                          *)
(* (core/tools/systemMessageTools/interceptXmlToolCalls.ts): the streaming *)
(* driver that intercepts one XML tool call in a stream of chat messages,  *)
(* together with the helpers it calls (splitAtTagsAndCodeblocks,           *)
(* detectToolCallStart, parsePartialXml, getStringDelta).                  *)
(*                                                                         *)
(* Text is a sequence of atoms.  An atom is a piece of the real string:    *)
(* "<", "/", ">" and the single characters of leaf text are one character  *)
(* each; a tag name is one or two atoms ("tool_" "call", "tool_" "name",   *)
(* "args", "x", "y").  Upstream fragment boundaries fall between atoms, so *)
(* a fragment can end inside the opening marker, inside a tag or inside a  *)
(* leaf value.                                                             *)
(***************************************************************************)
EXTENDS Integers, Sequences, FiniteSets, TLC

\* ------------------------------------------------------------------ bounds
\* assistant text fragments upstream delivers in one run
MaxFrags == 2
\* messages in one upstream batch
MaxBatch == 2
\* pass-through messages (non-assistant, or with native tool calls) in one run
MaxPass == 1

\* ------------------------------------------------------------ text helpers
Q == "\""

IsPrefix(s, t) == Len(s) <= Len(t) /\ SubSeq(t, 1, Len(s)) = s

\* first index at which s occurs in t, 0 when it does not (String.indexOf + 1)
IndexOf(s, t) ==
  LET hits == {i \in 1..(Len(t) - Len(s) + 1) : SubSeq(t, i, i + Len(s) - 1) = s}
  IN IF hits = {} THEN 0 ELSE CHOOSE i \in hits : \A j \in hits : i <= j

\* String.includes
Contains(s, t) == IndexOf(s, t) # 0

Drop(t, n) == SubSeq(t, n + 1, Len(t))

RECURSIVE Concat(_)
Concat(ss) == IF ss = <<>> THEN <<>> ELSE Head(ss) \o Concat(Tail(ss))

\* ------------------------------------------------------------ the markup
ToolCallTag == <<"tool_", "call">>
ToolNameTag == <<"tool_", "name">>
ArgsTag == <<"args">>

OpenTag(name) == <<"<">> \o name \o <<">">>
CloseTag(name) == <<"<", "/">> \o name \o <<">">>

OpenMarker == OpenTag(ToolCallTag)
CloseMarker == CloseTag(ToolCallTag)

\* the code fence delimiter (three backquotes) as one atom
Fence == "fence"

\* ------------------------------------------------- Tag Boundary Splitter
\* A piece boundary lies before every "<", after every ">" and on both sides
\* of a code fence; the pieces concatenate to the input and none is empty.
IsBoundary(t, i) ==
  /\ i > 1
  /\ i <= Len(t)
  /\ \/ t[i] = "<"
     \/ t[i - 1] = ">"
     \/ t[i] = Fence
     \/ t[i - 1] = Fence

RECURSIVE splitAtTagsAndCodeblocks(_)
splitAtTagsAndCodeblocks(content) ==
  IF content = <<>> THEN <<>>
  ELSE LET cuts == {i \in 2..Len(content) : IsBoundary(content, i)}
           nxt == IF cuts = {} THEN Len(content) + 1
                  ELSE CHOOSE i \in cuts : \A j \in cuts : i <= j
       IN <<SubSeq(content, 1, nxt - 1)>>
            \o splitAtTagsAndCodeblocks(Drop(content, nxt - 1))

\* --------------------------------------------------- Call-Start Detector
\* contains the marker: confirmed call start, the text after the marker is the
\* residual buffer; a strict non-empty prefix of the marker: ambiguous;
\* anything else: plain text.
detectToolCallStart(buffer) ==
  LET at == IndexOf(OpenMarker, buffer)
  IN IF at # 0
       THEN [isInPartialStart |-> FALSE, isInToolCall |-> TRUE,
             modifiedBuffer |-> Drop(buffer, at + Len(OpenMarker) - 1)]
     ELSE IF buffer # <<>> /\ IsPrefix(buffer, OpenMarker)
       THEN [isInPartialStart |-> TRUE, isInToolCall |-> FALSE,
             modifiedBuffer |-> buffer]
     ELSE [isInPartialStart |-> FALSE, isInToolCall |-> FALSE,
           modifiedBuffer |-> buffer]

\* ------------------------------------ Tolerant Incremental Markup Parser
\* A value is a leaf [leaf |-> TRUE, text |-> atoms] or an object
\* [leaf |-> FALSE, items |-> <<[key |-> name, val |-> value], ...>>].
Leaf(text) == [leaf |-> TRUE, text |-> text]
Obj(items) == [leaf |-> FALSE, items |-> items]

\* the text up to the next "<" (all of it when there is none)
LeafText(s) ==
  LET lt == IndexOf(<<"<">>, s)
  IN IF lt = 0 THEN s ELSE SubSeq(s, 1, lt - 1)

RECURSIVE ParseElems(_)
RECURSIVE ParseValue(_)

\* The sibling elements at the head of s: [items, rest].  An element whose
\* closing tag has not arrived is kept with the content seen so far and ends
\* the parse; an opening tag that is not complete is not an element yet.
ParseElems(s) ==
  IF s = <<>> \/ s[1] # "<" THEN [items |-> <<>>, rest |-> <<>>]
  ELSE IF Len(s) >= 2 /\ s[2] = "/" THEN [items |-> <<>>, rest |-> s]
  ELSE LET gt == IndexOf(<<">">>, s)
       IN IF gt = 0 \/ gt = 2 THEN [items |-> <<>>, rest |-> <<>>]
          ELSE LET key == SubSeq(s, 2, gt - 1)
                   v == ParseValue(Drop(s, gt))
                   item == [key |-> key, val |-> v.val]
               IN IF IsPrefix(CloseTag(key), v.rest)
                    THEN LET more == ParseElems(Drop(v.rest, Len(CloseTag(key))))
                         IN [items |-> <<item>> \o more.items, rest |-> more.rest]
                    ELSE [items |-> <<item>>, rest |-> <<>>]

\* The value at the head of an element's body: [val, rest].
ParseValue(body) ==
  IF body = <<>> THEN [val |-> Leaf(<<>>), rest |-> <<>>]
  ELSE IF body[1] # "<"
    THEN LET text == LeafText(body)
         IN [val |-> Leaf(text), rest |-> Drop(body, Len(text))]
  ELSE IF Len(body) >= 2 /\ body[2] = "/"
    THEN [val |-> Leaf(<<>>), rest |-> body]
  ELSE LET r == ParseElems(body)
       IN IF r.items = <<>> THEN [val |-> Leaf(<<>>), rest |-> <<>>]
          ELSE [val |-> Obj(r.items), rest |-> r.rest]

\* the value of the first item with this key, Leaf(<<>>) when there is none
Field(items, key) ==
  LET at == {i \in 1..Len(items) : items[i].key = key}
  IN IF at = {} THEN Leaf(<<>>)
     ELSE items[CHOOSE i \in at : \A j \in at : i <= j].val

\* parsePartialXml(toolCallText).tool_call: the call's text is parsed from its
\* start up to the closing marker, if that has arrived.  tool_name is <<>> while
\* no name is resolvable.
parsePartialXml(text) ==
  LET close == IndexOf(CloseMarker, text)
      body == IF close = 0 THEN text ELSE SubSeq(text, 1, close - 1)
      items == ParseElems(body).items
      name == Field(items, ToolNameTag)
  IN [tool_name |-> IF name.leaf THEN name.text ELSE <<>>,
      args |-> Field(items, ArgsTag)]

\* ---------------------------------------------------------- JSON.stringify
Digits == {"1", "2"}

IsNumeric(text) == text # <<>> /\ \A i \in 1..Len(text) : text[i] \in Digits
IsBoolean(text) == text \in {<<"t", "r", "u", "e">>, <<"f", "a", "l", "s", "e">>}

RECURSIVE Stringify(_)
RECURSIVE StringifyItems(_)

Stringify(v) ==
  IF v.leaf
    THEN IF IsNumeric(v.text) \/ IsBoolean(v.text) THEN v.text
         ELSE <<Q>> \o v.text \o <<Q>>
    ELSE <<"{">> \o StringifyItems(v.items) \o <<"}">>

StringifyItems(items) ==
  IF items = <<>> THEN <<>>
  ELSE <<Q>> \o items[1].key \o <<Q, ":">> \o Stringify(items[1].val)
         \o (IF Len(items) = 1 THEN <<>> ELSE <<",">> \o StringifyItems(Tail(items)))

\* a leaf with no text is the empty string, which is falsy
Truthy(v) == ~v.leaf \/ v.text # <<>>

\* ------------------------------------------------ Argument Delta Computer
CommonPrefixLen(a, b) ==
  LET same == {n \in 0..Len(a) : n <= Len(b) /\ SubSeq(a, 1, n) = SubSeq(b, 1, n)}
  IN CHOOSE n \in same : \A m \in same : m <= n

\* the suffix of updated after its common prefix with original: the appended
\* part when updated extends original, the part from the first point of
\* divergence otherwise
getStringDelta(original, updated) == Drop(updated, CommonPrefixLen(original, updated))


\* ------------------------------------------------------------- the inputs
\* <tool_call><tool_name>fo</tool_name><args><x>12</x></args></tool_call>
CallFo ==
  OpenMarker \o OpenTag(ToolNameTag) \o <<"f", "o">> \o CloseTag(ToolNameTag)
    \o OpenTag(ArgsTag) \o OpenTag(<<"x">>) \o <<"1", "2">> \o CloseTag(<<"x">>)
    \o CloseTag(ArgsTag) \o CloseMarker

\* <tool_call><tool_name>g</tool_name></tool_call>
CallG == OpenMarker \o OpenTag(ToolNameTag) \o <<"g">> \o CloseTag(ToolNameTag) \o CloseMarker

\* <tool_call><args><x>1</x></args></tool_call>: a call with no name
CallNoName ==
  OpenMarker \o OpenTag(ArgsTag) \o OpenTag(<<"x">>) \o <<"1">> \o CloseTag(<<"x">>)
    \o CloseTag(ArgsTag) \o CloseMarker

\* the assistant texts upstream streams, one per run
Texts ==
  { <<"a">> \o CallFo \o <<"b">>,
    CallG \o CallG,
    CallNoName \o <<"b">>,
    <<"a", "<", "tool_", "x", ">", "<">> \o CallG,
    <<"a", Fence, "<", "tool_">> }

\* the values upstream can return when it is exhausted: a prompt log or undefined
FinalValues == {"promptLog", "undefined"}

\* currentToolCallId = undefined
NoId == 0
\* the id of a tool call the provider made natively
NativeId == -1

NativeCall == [id |-> NativeId, type |-> "function", name |-> <<"n">>, arguments |-> <<>>]

\* An upstream message; n numbers the messages of a run in arrival order.
\* toolCalls = <<>> stands for a message without the toolCalls field.
AssistantMessage(n, content) ==
  [n |-> n, role |-> "assistant", content |-> content, toolCalls |-> <<>>]

\* the messages that are not intercepted: a user message (its content looks
\* like a call) and an assistant message with a native tool call
PassMessages(n) ==
  { [n |-> n, role |-> "user", content |-> CallG, toolCalls |-> <<>>],
    [n |-> n, role |-> "assistant", content |-> CallG, toolCalls |-> <<NativeCall>>] }

\* core/util/messageContent renderChatMessage, for a message with text content
renderChatMessage(message) == message.content

VARIABLES
  text,                \* the assistant text upstream streams in this run
  pos,                 \* how many atoms of it upstream has delivered
  frags,               \* assistant fragments delivered
  passes,              \* pass-through messages delivered
  nmsg,                \* messages delivered
  upFinal,             \* the value upstream returned, "pending" before
  aborted,             \* abortController.signal.aborted
  pc,                  \* where the generator is
  batch,               \* the messages of result.value the for-await has yet to take
  splitContent,        \* the chunks of splitContent the for has yet to take
  toolCallText, currentToolCallId, currentToolCallArgs, inToolCall, done, buffer,
  out,                 \* the values yielded so far
  kinds,               \* for each of them: "pass", "plain" or "delta"
  retval,              \* the value returned, "pending" before
  pulled,              \* messageGenerator.next() has been called
  idCalls,             \* calls of generateOpenAIToolCallId()
  abortedEarly,        \* the signal was raised before the first pull
  closedCall,          \* a call has been closed (lines 111-117 have run)
  inspected,           \* n of the messages handed to the splitter
  consumed,            \* atoms of the text the chunk loop has taken
  passedIn,            \* the pass-through messages upstream has delivered
  dropped,             \* n of the messages dropped because done was set
  bufferFrom,          \* n of the message that supplied the first atom of buffer
  lateEvents,          \* an event was emitted with the signal raised and done not set
  runs,                \* two invocations of the driver run side by side
  issued,              \* identifiers generateOpenAIToolCallId() has issued to them
  styledSegments,      \* the segments handed to splitStyledSegmentsIntoRows
  columns,             \* the terminal width handed to it
  segmentRows,         \* the rows it returned, <<>> before
  wrapPc,              \* where splitStyledSegmentsIntoRows is, run step by step
  segmentAt,           \* the segment the loop of line 259 is at, from 1
  segmentWords,        \* words, the segment split at spaces
  wordAt,              \* i of the loop of line 332
  rowState,            \* rows, currentRow and currentRowLength
  wordRest,            \* remainingWord of lines 377-395
  ansiSegments,        \* AnsiParsingStream.segments
  currentPosition,     \* AnsiParsingStream.currentPosition
  currentStyle,        \* AnsiParsingStream.currentStyle
  rawOutput,           \* AnsiParsingStream.rawOutput
  writes               \* chunks written to the stream

upstream == <<text, pos, frags, passes, nmsg, upFinal>>
locals == <<toolCallText, currentToolCallId, currentToolCallArgs, inToolCall, done, buffer>>
iter == <<batch, splitContent>>
ghost == <<pulled, idCalls, abortedEarly, closedCall, inspected, consumed, passedIn, dropped,
           bufferFrom, lateEvents>>
sessions == <<runs, issued>>
wrapping == <<wrapPc, segmentAt, segmentWords, wordAt, rowState, wordRest>>
ansi == <<ansiSegments, currentPosition, currentStyle, rawOutput, writes>>
rendering == <<styledSegments, columns, segmentRows, wrapping, ansi>>
vars == <<upstream, aborted, pc, iter, locals, out, kinds, retval, ghost, sessions, rendering>>

\* --------------------------------------------------------------- upstream
\* The lengths of the next assistant fragment: any part of the rest of the
\* text, and all of it when it is the last fragment of the run.
FragmentLengths(p, f) ==
  IF f + 1 < MaxFrags THEN 1..(Len(text) - p)
  ELSE IF f + 1 = MaxFrags THEN {Len(text) - p} \ {0}
  ELSE {}

\* The batches upstream can yield next: up to k messages, each the next piece
\* of the assistant text or a pass-through message.
RECURSIVE Batches(_, _, _, _, _)
Batches(p, f, q, n, k) ==
  {<<>>} \cup
  (IF k = 0 THEN {}
   ELSE UNION { { <<AssistantMessage(n, SubSeq(text, p + 1, p + len))>> \o b :
                    b \in Batches(p + len, f + 1, q, n + 1, k - 1) } :
                len \in FragmentLengths(p, f) }
        \cup
        UNION { { <<m>> \o b : b \in Batches(p, f, q + 1, n + 1, k - 1) } :
                m \in (IF q < MaxPass THEN PassMessages(n) ELSE {}) })

\* the messages of a batch that carry a piece of the text, and the others
IsFragment(m) == m.role = "assistant" /\ m.toolCalls = <<>>
Intercepted(b) == SelectSeq(b, IsFragment)
PassedOn(b) == SelectSeq(b, LAMBDA m : ~IsFragment(m))
ContentOf(b) == Concat([i \in 1..Len(b) |-> b[i].content])

Init ==
  /\ text \in Texts
  /\ pos = 0 /\ frags = 0 /\ passes = 0 /\ nmsg = 0
  /\ upFinal = "pending"
  /\ aborted = FALSE
  /\ pc = "top"
  /\ batch = <<>>
  /\ splitContent = <<>>
  /\ toolCallText = <<>>
  /\ currentToolCallId = NoId
  /\ currentToolCallArgs = <<>>
  /\ inToolCall = FALSE
  /\ done = FALSE
  /\ buffer = <<>>
  /\ out = <<>>
  /\ kinds = <<>>
  /\ retval = "pending"
  /\ pulled = FALSE /\ idCalls = 0 /\ abortedEarly = FALSE /\ closedCall = FALSE
  /\ inspected = {}
  /\ consumed = 0
  /\ passedIn = <<>>
  /\ dropped = {}
  /\ bufferFrom = 0
  /\ lateEvents = FALSE
  /\ runs = <<>>
  /\ issued = 0
  /\ styledSegments = <<>> /\ columns = 0 /\ segmentRows = <<>>
  /\ wrapPc = "idle" /\ segmentAt = 0 /\ segmentWords = <<>> /\ wordAt = 0
  /\ rowState = <<>> /\ wordRest = <<>>
  /\ ansiSegments = <<>> /\ currentPosition = [row |-> 0, col |-> 0]
  /\ currentStyle = [bold |-> FALSE] /\ rawOutput = <<>> /\ writes = 0

\* ------------------------------------------------------------- the driver
Locals ==
  [toolCallText |-> toolCallText, currentToolCallId |-> currentToolCallId,
   currentToolCallArgs |-> currentToolCallArgs, inToolCall |-> inToolCall,
   done |-> done, buffer |-> buffer]

InitialLocals ==
  [toolCallText |-> <<>>, currentToolCallId |-> NoId, currentToolCallArgs |-> <<>>,
   inToolCall |-> FALSE, done |-> FALSE, buffer |-> <<>>]

\* lines 53-65: buffer += chunk, then the detector while not in a call
Detect_NoPartial(d, chunk) ==
  LET b == d.buffer \o chunk
      det == detectToolCallStart(b)
  IN IF d.inToolCall THEN [partial |-> FALSE, inToolCall |-> TRUE, buffer |-> b]
     ELSE IF det.isInToolCall
       THEN [partial |-> FALSE, inToolCall |-> TRUE, buffer |-> det.modifiedBuffer]
     ELSE [partial |-> FALSE, inToolCall |-> FALSE, buffer |-> b]
Detect(d, chunk) ==
  LET b == d.buffer \o chunk
      det == detectToolCallStart(b)
  IN IF d.inToolCall THEN [partial |-> FALSE, inToolCall |-> TRUE, buffer |-> b]
     ELSE IF det.isInPartialStart
       THEN [partial |-> TRUE, inToolCall |-> FALSE, buffer |-> b]
     ELSE IF det.isInToolCall
       THEN [partial |-> FALSE, inToolCall |-> TRUE, buffer |-> det.modifiedBuffer]
     ELSE [partial |-> FALSE, inToolCall |-> FALSE, buffer |-> b]

\* line 45: message.role !== "assistant" || message.toolCalls
IsPassThrough_RoleOnly(message) == message.role # "assistant"
IsPassThrough(message) == message.role # "assistant" \/ message.toolCalls # <<>>

\* line 76: parsed?.tool_call?.tool_name
NameResolved_Always(parsed) == TRUE
NameResolved_OnlyWithArgs(parsed) == parsed.tool_name # <<>> /\ Truthy(parsed.args)
NameResolved(parsed) == parsed.tool_name # <<>>

\* line 76: what reading parsed?.tool_call?.tool_name does.  With no
\* resolvable name the parser has no result: the optional chain reads
\* undefined there, where a plain member access raises a TypeError.
ReadToolName_Unguarded(parsed) == IF parsed.tool_name = <<>> THEN "TypeError" ELSE "value"
ReadToolName(parsed) == IF parsed.tool_name = <<>> THEN "undefined" ELSE "value"

\* line 68: !currentToolCallId
NeedsId_Always(d) == TRUE
NeedsId(d) == d.currentToolCallId = NoId

\* lines 77-79
SerializedArgs_NeverEmpty(parsed) == Stringify(parsed.args)
SerializedArgs(parsed) == IF Truthy(parsed.args) THEN Stringify(parsed.args) ELSE <<>>

\* line 109: toolCallText.includes("</tool_call>")
ClosesCall_Never(t) == FALSE
ClosesCall(t) == Contains(CloseMarker, t)

\* lines 83-100: the yielded tool call delta
ToolCallDelta(message, id, name, argsDelta) ==
  [message EXCEPT !.content = <<>>,
                  !.toolCalls = <<[id |-> id, type |-> "function",
                                   name |-> name, arguments |-> argsDelta]>>]

\* lines 122-127: the yielded assistant message
PlainText(message, content) == [message EXCEPT !.content = content]

\* Lines 53-105 and 120-128: one iteration of the chunk loop, up to its yield
\* or its continue.  kind says how it ended, yields holds what it yielded.
ProcessChunk(d, chunk, message, freshId) ==
  LET det == Detect(d, chunk)
  IN IF det.partial
       THEN [kind |-> "partial", yields |-> <<>>, d |-> [d EXCEPT !.buffer = det.buffer]]
     ELSE IF det.inToolCall
       THEN LET id == IF NeedsId(d) THEN freshId ELSE d.currentToolCallId
                tct == d.toolCallText \o det.buffer
                parsed == parsePartialXml(tct)
                args == SerializedArgs(parsed)
                d1 == [d EXCEPT !.inToolCall = TRUE, !.buffer = det.buffer,
                                !.currentToolCallId = id, !.toolCallText = tct]
            IN IF NameResolved(parsed)
                 THEN [kind |-> "delta",
                       yields |-> << <<ToolCallDelta(message, id, parsed.tool_name,
                                         getStringDelta(d.currentToolCallArgs, args))>> >>,
                       d |-> [d1 EXCEPT !.currentToolCallArgs = args]]
                 ELSE [kind |-> "noName", yields |-> <<>>,
                       d |-> [d1 EXCEPT !.buffer = <<>>]]
     ELSE [kind |-> "plain", yields |-> << <<PlainText(message, det.buffer)>> >>,
           d |-> [d EXCEPT !.buffer = det.buffer]]

\* lines 107-119 and 129: the iteration resumed after the yield of a delta
AfterDelta_NoDone(d) ==
  IF Contains(CloseMarker, d.toolCallText)
    THEN [d EXCEPT !.inToolCall = FALSE, !.toolCallText = <<>>,
                   !.currentToolCallId = NoId, !.currentToolCallArgs = <<>>]
    ELSE [d EXCEPT !.buffer = <<>>]
AfterDelta_KeepId(d) ==
  IF ClosesCall(d.toolCallText)
    THEN [d EXCEPT !.inToolCall = FALSE, !.toolCallText = <<>>,
                   !.currentToolCallArgs = <<>>, !.done = TRUE]
    ELSE [d EXCEPT !.buffer = <<>>]
AfterDelta_KeepBuffer(d) ==
  IF ClosesCall(d.toolCallText)
    THEN [d EXCEPT !.inToolCall = FALSE, !.toolCallText = <<>>,
                   !.currentToolCallId = NoId, !.currentToolCallArgs = <<>>,
                   !.done = TRUE]
    ELSE d
AfterDelta(d) ==
  IF ClosesCall(d.toolCallText)
    THEN [d EXCEPT !.inToolCall = FALSE, !.toolCallText = <<>>,
                   !.currentToolCallId = NoId, !.currentToolCallArgs = <<>>,
                   !.done = TRUE]
    ELSE [d EXCEPT !.buffer = <<>>]

\* line 129: the iteration resumed after the yield of plain text
AfterPlain_KeepBuffer(d) == d
AfterPlain(d) == [d EXCEPT !.buffer = <<>>]

SetLocals(d) ==
  /\ toolCallText' = d.toolCallText
  /\ currentToolCallId' = d.currentToolCallId
  /\ currentToolCallArgs' = d.currentToolCallArgs
  /\ inToolCall' = d.inToolCall
  /\ done' = d.done
  /\ buffer' = d.buffer

\* lines 32-34
ObserveAbort_Never(d, signal) == d.done
ObserveAbort_Overwrite(d, signal) == signal
ObserveAbort(d, signal) == d.done \/ signal

\* line 38: the value the driver returns for the final value of upstream
ReturnValue_Undefined(value) == "undefined"
ReturnValue(value) == value

\* lines 31-36: the head of the outer loop, up to the await of the next batch
Top ==
  /\ pc = "top"
  /\ done' = ObserveAbort(Locals, aborted)
  /\ pulled' = TRUE
  /\ pc' = "await"
  /\ UNCHANGED <<rendering, sessions, upstream, aborted, iter, out, kinds, retval, idCalls, abortedEarly,
                 closedCall, inspected, consumed, passedIn, dropped, bufferFrom, lateEvents, toolCallText,
                 currentToolCallId, currentToolCallArgs, inToolCall, buffer>>

\* lines 36-38: upstream is exhausted
UpstreamReturns ==
  /\ pc = "await"
  /\ \E v \in FinalValues :
       /\ upFinal' = v
       /\ retval' = ReturnValue(v)
  /\ pc' = "ret"
  /\ UNCHANGED <<rendering, sessions, text, pos, frags, passes, nmsg, aborted, iter, locals, out, kinds, ghost>>

\* line 36: the pull fails; nothing catches the rejection and it reaches the
\* consumer of the driver
UpstreamThrows ==
  /\ pc = "await"
  /\ upFinal' = "failed"
  /\ pc' = "threw"
  /\ UNCHANGED <<rendering, sessions, text, pos, frags, passes, nmsg, aborted, iter, locals, out, kinds,
                 retval, ghost>>

\* lines 36-40: upstream yields a batch
UpstreamYields ==
  /\ pc = "await"
  /\ \E b \in Batches(pos, frags, passes, nmsg + 1, MaxBatch) \ {<<>>} :
       /\ batch' = b
       /\ pos' = pos + Len(ContentOf(Intercepted(b)))
       /\ frags' = frags + Len(Intercepted(b))
       /\ passes' = passes + Len(PassedOn(b))
       /\ nmsg' = nmsg + Len(b)
       /\ passedIn' = passedIn \o PassedOn(b)
  /\ pc' = "msg"
  /\ UNCHANGED <<rendering, sessions, text, upFinal, aborted, splitContent, locals, out, kinds, retval,
                 pulled, idCalls, abortedEarly, closedCall, inspected, consumed, dropped, bufferFrom, lateEvents>>

\* line 40: the batch has no further message
BatchEnd ==
  /\ pc = "msg"
  /\ batch = <<>>
  /\ pc' = "top"
  /\ UNCHANGED <<rendering, sessions, upstream, aborted, iter, locals, out, kinds, retval, ghost>>

\* lines 41-43, with the signal read again for every message
BreakDone_OnSignal ==
  /\ pc = "msg"
  /\ batch # <<>>
  /\ done \/ aborted
  /\ batch' = <<>>
  /\ dropped' = dropped \cup {batch[i].n : i \in 1..Len(batch)}
  /\ pc' = "top"
  /\ UNCHANGED <<rendering, sessions, upstream, aborted, splitContent, locals, out, kinds, retval,
                 pulled, idCalls, abortedEarly, closedCall, inspected, consumed, passedIn,
                 bufferFrom, lateEvents>>

\* lines 41-43: the rest of the batch is dropped
BreakDone ==
  /\ pc = "msg"
  /\ batch # <<>>
  /\ done
  /\ batch' = <<>>
  /\ dropped' = dropped \cup {batch[i].n : i \in 1..Len(batch)}
  /\ pc' = "top"
  /\ UNCHANGED <<rendering, sessions, upstream, aborted, splitContent, locals, out, kinds, retval,
                 pulled, idCalls, abortedEarly, closedCall, inspected, consumed, passedIn, bufferFrom, lateEvents>>

\* lines 45-46
PassThrough_WholeBatch ==
  /\ pc = "msg"
  /\ batch # <<>>
  /\ ~done
  /\ IsPassThrough(Head(batch))
  /\ out' = Append(out, batch)
  /\ kinds' = Append(kinds, "pass")
  /\ lateEvents' = (lateEvents \/ aborted)
  /\ pc' = "yPass"
  /\ UNCHANGED <<rendering, sessions, upstream, aborted, iter, locals, retval, pulled, idCalls,
                 abortedEarly, closedCall, inspected, consumed, passedIn, dropped,
                 bufferFrom>>
PassThrough_IgnoreDone ==
  /\ pc = "msg"
  /\ batch # <<>>
  /\ IsPassThrough(Head(batch))
  /\ out' = Append(out, <<Head(batch)>>)
  /\ kinds' = Append(kinds, "pass")
  /\ lateEvents' = (lateEvents \/ aborted)
  /\ pc' = "yPass"
  /\ UNCHANGED <<rendering, sessions, upstream, aborted, iter, locals, retval, pulled, idCalls,
                 abortedEarly, closedCall, inspected, consumed, passedIn, dropped,
                 bufferFrom>>
PassThrough ==
  /\ pc = "msg"
  /\ batch # <<>>
  /\ ~done
  /\ IsPassThrough(Head(batch))
  /\ out' = Append(out, <<Head(batch)>>)
  /\ kinds' = Append(kinds, "pass")
  /\ lateEvents' = (lateEvents \/ aborted)
  /\ pc' = "yPass"
  /\ UNCHANGED <<rendering, sessions, upstream, aborted, iter, locals, retval, pulled, idCalls,
                 abortedEarly, closedCall, inspected, consumed, passedIn, dropped,
                 bufferFrom>>

\* line 47
ResumePass_ClearsBuffer ==
  /\ pc = "yPass"
  /\ batch' = Tail(batch)
  /\ buffer' = <<>>
  /\ pc' = "msg"
  /\ UNCHANGED <<rendering, sessions, upstream, aborted, splitContent, out, kinds, retval, ghost,
                 toolCallText, currentToolCallId, currentToolCallArgs, inToolCall, done>>
ResumePass ==
  /\ pc = "yPass"
  /\ batch' = Tail(batch)
  /\ pc' = "msg"
  /\ UNCHANGED <<rendering, sessions, upstream, aborted, splitContent, locals, out, kinds, retval, ghost>>

\* lines 50-52
StartMessage_IgnoreDone ==
  /\ pc = "msg"
  /\ batch # <<>>
  /\ ~IsPassThrough(Head(batch))
  /\ splitContent' = splitAtTagsAndCodeblocks(renderChatMessage(Head(batch)))
  /\ inspected' = inspected \cup {Head(batch).n}
  /\ pc' = "chunk"
  /\ UNCHANGED <<rendering, sessions, upstream, aborted, batch, locals, out, kinds, retval,
                 pulled, idCalls, abortedEarly, closedCall, consumed, passedIn, dropped, bufferFrom, lateEvents>>
StartMessage ==
  /\ pc = "msg"
  /\ batch # <<>>
  /\ ~done
  /\ ~IsPassThrough(Head(batch))
  /\ splitContent' = splitAtTagsAndCodeblocks(renderChatMessage(Head(batch)))
  /\ inspected' = inspected \cup {Head(batch).n}
  /\ pc' = "chunk"
  /\ UNCHANGED <<rendering, sessions, upstream, aborted, batch, locals, out, kinds, retval,
                 pulled, idCalls, abortedEarly, closedCall, consumed, passedIn, dropped, bufferFrom, lateEvents>>

\* line 52: the message has no further chunk
MessageEnd ==
  /\ pc = "chunk"
  /\ splitContent = <<>>
  /\ batch' = Tail(batch)
  /\ pc' = "msg"
  /\ UNCHANGED <<rendering, sessions, upstream, aborted, splitContent, locals, out, kinds, retval, ghost>>

\* lines 53-105, 120-128: a chunk, up to the yield or the continue
Chunk ==
  /\ pc = "chunk"
  /\ splitContent # <<>>
  /\ LET r == ProcessChunk(Locals, Head(splitContent), Head(batch), idCalls + 1)
         raises == /\ r.kind \in {"delta", "noName"}
                   /\ ReadToolName(parsePartialXml(r.d.toolCallText)) = "TypeError"
     IN /\ SetLocals(r.d)
        /\ out' = out \o r.yields
        /\ kinds' = IF r.yields = <<>> THEN kinds ELSE Append(kinds, r.kind)
        /\ idCalls' = IF r.d.currentToolCallId # currentToolCallId
                        THEN idCalls + 1 ELSE idCalls
        /\ pc' = CASE raises -> "threw"
                   [] r.kind = "delta" -> "yDelta"
                   [] r.kind = "plain" -> "yPlain"
                   [] OTHER -> "chunk"
        /\ splitContent' = IF r.kind \in {"partial", "noName"}
                             THEN Tail(splitContent) ELSE splitContent
  /\ consumed' = consumed + Len(Head(splitContent))
  /\ bufferFrom' = IF buffer = <<>> THEN Head(batch).n ELSE bufferFrom
  /\ lateEvents' = (lateEvents \/ (aborted /\ ~done /\ Len(out') > Len(out)))
  /\ UNCHANGED <<rendering, sessions, upstream, aborted, batch, retval,
                 pulled, abortedEarly, closedCall, inspected, passedIn, dropped>>

\* lines 107-119, 129: resumed after a delta; the call closes (and the break
\* leaves the chunk loop for the next message) or goes on
ResumeDelta ==
  /\ pc = "yDelta"
  /\ SetLocals(AfterDelta(Locals))
  /\ IF ClosesCall(toolCallText)
       THEN /\ splitContent' = <<>>
            /\ batch' = Tail(batch)
            /\ closedCall' = TRUE
            /\ pc' = "msg"
       ELSE /\ splitContent' = Tail(splitContent)
            /\ pc' = "chunk"
            /\ UNCHANGED <<batch, closedCall>>
  /\ UNCHANGED <<rendering, sessions, upstream, aborted, out, kinds, retval, pulled, idCalls, abortedEarly,
                 inspected, consumed, passedIn, dropped, bufferFrom, lateEvents>>

\* line 129: resumed after plain text
ResumePlain ==
  /\ pc = "yPlain"
  /\ SetLocals(AfterPlain(Locals))
  /\ splitContent' = Tail(splitContent)
  /\ pc' = "chunk"
  /\ UNCHANGED <<rendering, sessions, upstream, aborted, batch, out, kinds, retval, ghost>>

\* The caller raises the cancellation signal.  It runs only while the
\* generator is suspended: before it is started, at the await or at a yield.
Suspended == pc \in {"await", "yDelta", "yPlain", "yPass"} \/ (pc = "top" /\ ~pulled)

Abort ==
  /\ ~aborted
  /\ Suspended
  /\ aborted' = TRUE
  /\ abortedEarly' = ~pulled
  /\ UNCHANGED <<rendering, sessions, upstream, pc, iter, locals, out, kinds, retval, pulled, idCalls,
                 closedCall, inspected, consumed, passedIn, dropped, bufferFrom, lateEvents>>

Next ==
  \/ Top
  \/ UpstreamReturns
  \/ UpstreamThrows
  \/ UpstreamYields
  \/ BatchEnd
  \/ BreakDone
  \/ PassThrough
  \/ ResumePass
  \/ StartMessage
  \/ MessageEnd
  \/ Chunk
  \/ ResumeDelta
  \/ ResumePlain
  \/ Abort

Spec == Init /\ [][Next]_vars

\* The steps of the generator itself: the consumer keeps pulling, so the
\* generator is resumed after every yield and runs to its next suspension.
Running ==
  \/ Top
  \/ BatchEnd
  \/ BreakDone
  \/ PassThrough
  \/ ResumePass
  \/ StartMessage
  \/ MessageEnd
  \/ Chunk
  \/ ResumeDelta
  \/ ResumePlain

\* upstream is finite: a pull that is not answered with a batch is answered
\* with the final value or with a failure
UpstreamEnds == UpstreamReturns \/ UpstreamThrows

\* The generator has a step to take wherever it is not at the await and has
\* not finished: the guards of the steps of Running cover each of these
\* positions, and each of the steps changes pc or shortens splitContent.
CanRun == pc \in {"top", "msg", "chunk", "yDelta", "yPlain", "yPass"}

\* weak fairness of Running, with ENABLED <<Running>>_vars written as CanRun
RunningIsFair == []<>(~CanRun) \/ []<><<Running>>_vars

LiveSpec == Spec /\ RunningIsFair /\ WF_vars(UpstreamEnds)


\* ------------------------------------------------------- the single shot
\* The chunk loop of lines 52-130 run over chunks in one go: what it yields
\* and the locals it ends with.
RECURSIVE RunChunks(_, _, _, _)
RunChunks(d, chunks, message, acc) ==
  IF chunks = <<>> \/ d.done THEN [d |-> d, out |-> acc.out, kinds |-> acc.kinds]
  ELSE LET r == ProcessChunk(d, Head(chunks), message, NoId + 1)
           d2 == CASE r.kind = "delta" -> AfterDelta(r.d)
                   [] r.kind = "plain" -> AfterPlain(r.d)
                   [] OTHER -> r.d
           acc2 == [out |-> acc.out \o r.yields,
                    kinds |-> IF r.yields = <<>> THEN acc.kinds
                              ELSE Append(acc.kinds, r.kind)]
       IN RunChunks(d2, Tail(chunks), message, acc2)

\* the driver on the whole text delivered as one assistant message
SingleShot(t) ==
  RunChunks(InitialLocals, splitAtTagsAndCodeblocks(t), AssistantMessage(1, t),
            [out |-> <<>>, kinds |-> <<>>])

\* ------------------------------------------------------ what was emitted
Indices(k, kind) == {i \in 1..Len(k) : k[i] = kind}
DeltaOf(o, i) == o[i][1].toolCalls[1]

\* the contents of the PlainText events, concatenated in emission order
PlainConcat(o, k) ==
  Concat([i \in 1..Len(o) |-> IF k[i] = "plain" THEN o[i][1].content ELSE <<>>])
\* the arguments deltas of the ToolCallDelta events, concatenated in emission order
ArgsConcat(o, k) ==
  Concat([i \in 1..Len(o) |-> IF k[i] = "delta" THEN DeltaOf(o, i).arguments ELSE <<>>])
\* the tool name of the last ToolCallDelta event, <<>> when there is none
FinalName(o, k) ==
  IF Indices(k, "delta") = {} THEN <<>>
  ELSE DeltaOf(o, CHOOSE i \in Indices(k, "delta") : \A j \in Indices(k, "delta") : j <= i).name

Observable(o, k) ==
  [plain |-> PlainConcat(o, k), args |-> ArgsConcat(o, k), name |-> FinalName(o, k)]

\* the number of events that consist of message m
Count(m) == Cardinality({i \in 1..Len(out) : out[i] = <<m>>})

\* the messages of the current batch the for-await has not reached yet
Pending == IF pc = "msg" THEN batch ELSE IF batch = <<>> THEN <<>> ELSE Tail(batch)
IsPending(n) == \E i \in 1..Len(Pending) : Pending[i].n = n

\* where the first call of t ends: the index of the last atom of the first
\* closing marker after the first opening marker, 0 when there is none
CallEnd(t) ==
  LET open == IndexOf(OpenMarker, t)
      rest == Drop(t, open + Len(OpenMarker) - 1)
      close == IndexOf(CloseMarker, rest)
  IN IF open = 0 \/ close = 0 THEN 0
     ELSE open + Len(OpenMarker) - 1 + close + Len(CloseMarker) - 1

\* -------------------------------------------------------------- the claims

\* C1: a step emits a ToolCallDelta only inside a call and only when the parse
\* of the accumulated call text yields a non-empty tool name, which the event
\* carries.
C1_NoDeltaBeforeName ==
  [][(Len(out') > Len(out) /\ kinds'[Len(kinds')] = "delta")
       => /\ inToolCall'
          /\ parsePartialXml(toolCallText').tool_name # <<>>
          /\ DeltaOf(out', Len(out')).name = parsePartialXml(toolCallText').tool_name]_vars

\* the first delta of a call has just been yielded, after chunks of the call
\* that resolved no name
C1_Witness ==
  /\ pc = "yDelta"
  /\ Cardinality(Indices(kinds, "delta")) = 1
  /\ Len(toolCallText) > Len(OpenTag(ToolNameTag)) + 1

C3_DeltasReconstructArgs ==
  (pc = "yDelta" /\ Contains(CloseMarker, toolCallText))
    => ArgsConcat(out, kinds) = SerializedArgs(parsePartialXml(toolCallText))

\* C4: a run that delivered the whole text and was not cancelled has the
\* plain text, the reconstructed arguments and the tool name of the
\* unfragmented delivery of the same text.
C4_FragmentIndependent ==
  (pc = "ret" /\ pos = Len(text) /\ ~aborted)
    => Observable(out, kinds) = Observable(SingleShot(text).out, SingleShot(text).kinds)

\* C5 as stated: every pass-through message the loop has gone past produced
\* exactly one event, that message, and was never handed to the splitter.
C5_EveryPassThroughEmitted ==
  \A i \in 1..Len(passedIn) :
    /\ passedIn[i].n \notin inspected
    /\ ~IsPending(passedIn[i].n) => Count(passedIn[i]) = 1

\* C5 amended: a pass-through message is never handed to the splitter, and it
\* produces exactly one event, that message, unless done was set when the loop
\* reached it: then it is dropped.
C5_PassThroughUnlessDone ==
  /\ \A i \in 1..Len(passedIn) :
       /\ passedIn[i].n \notin inspected
       /\ Count(passedIn[i]) =
            IF passedIn[i].n \in dropped \/ IsPending(passedIn[i].n) THEN 0 ELSE 1
  /\ dropped # {} => done

\* a message with native tool calls was passed on while a call was open
C5_Witness ==
  /\ inToolCall
  /\ ~done
  /\ pc = "yPass"
  /\ Head(batch).role = "assistant"
  /\ Count(Head(batch)) = 1

\* C6: a signal raised before the first pull leaves the run without output.
C6_CancelBeforeStart == abortedEarly => out = <<>>

\* cancelled before the first pull, upstream then delivered the whole text and
\* a pass-through message, and the run returned
C6_Witness ==
  /\ abortedEarly
  /\ pc = "ret"
  /\ pos = Len(text)
  /\ passes > 0

\* C7: once an outer iteration has observed the signal (done is set and no call
\* was closed), no step emits an event or touches the accumulated call text,
\* the buffer, the identifier or the in-call flag.
C7_NoEventAfterCancel ==
  [][(done /\ ~closedCall)
       => /\ out' = out
          /\ toolCallText' = toolCallText
          /\ buffer' = buffer
          /\ currentToolCallId' = currentToolCallId
          /\ inToolCall' = inToolCall]_vars

\* the signal was observed inside a call that had emitted a delta; upstream
\* then delivered the rest of the text, closing marker included
C7_Witness ==
  /\ done
  /\ inToolCall
  /\ Indices(kinds, "delta") # {}
  /\ toolCallText # <<>>
  /\ pos = Len(text)
  /\ pc = "ret"

\* C8: the driver returns only what upstream returned.
C8_ReturnsUpstreamValue ==
  /\ pc = "ret" => (upFinal \in FinalValues /\ retval = upFinal)
  /\ pc # "ret" => retval = "pending"

\* upstream ended inside a call and returned the prompt log
C8_Witness ==
  /\ pc = "ret"
  /\ inToolCall
  /\ ~done
  /\ retval = "promptLog"

\* C9: once a chunk has been appended and handled, the accumulated call text
\* holds no closing marker: the call was closed and the accumulator cleared.
C9_ClosedWhenMarkerSeen == pc # "yDelta" => ~Contains(CloseMarker, toolCallText)

\* C10 as stated: once a call has been closed the driver requests no further
\* batch from upstream.
C10_NoPullAfterClose == [][closedCall => ~(pc = "top" /\ pc' = "await")]_vars

\* C10 amended: once a call has been closed the driver emits nothing more, and
\* it returns only when upstream is exhausted.
C10_SilentAfterClose ==
  /\ [][closedCall => out' = out]_vars
  /\ [](pc = "ret" => upFinal # "pending")

\* a batch was requested after the call was closed
C10_Witness ==
  /\ closedCall
  /\ pc = "await"
  /\ pos < Len(text)

\* the step takes a chunk that, with the held buffer, holds the opening marker
\* after other text
MarkerAfterText ==
  /\ pc = "chunk"
  /\ splitContent # <<>>
  /\ ~inToolCall
  /\ IndexOf(OpenMarker, buffer \o Head(splitContent)) > 1

\* the text of the held buffer and the chunk that precedes the opening marker
BeforeMarker ==
  SubSeq(buffer \o Head(splitContent), 1, IndexOf(OpenMarker, buffer \o Head(splitContent)) - 1)

\* C11: held text is never lost: when the run was not cancelled, no call was
\* confirmed and upstream is exhausted, the contents of the PlainText events
\* concatenate to all the intercepted assistant text upstream delivered.
C11_PrefixNeverLost ==
  (pc = "ret" /\ ~aborted /\ ~inToolCall /\ ~closedCall)
    => PlainConcat(out, kinds) = SubSeq(text, 1, pos)

\* C12: when the examined buffer holds the opening marker after other text, the
\* step emits that text as one PlainText event, and the call accumulator starts
\* with the text after the marker.
C12_TextBeforeMarkerFlushed ==
  [][MarkerAfterText
       => /\ Len(out') = Len(out) + 1
          /\ kinds'[Len(kinds')] = "plain"
          /\ out'[Len(out')][1].content = BeforeMarker
          /\ toolCallText' = detectToolCallStart(buffer \o Head(splitContent)).modifiedBuffer]_vars

\* C13: every ToolCallDelta of a run carries the same tool name.
C13_NameNeverChanges ==
  \A i, j \in Indices(kinds, "delta") : DeltaOf(out, i).name = DeltaOf(out, j).name

\* C14: the identifier generator is invoked at most once in a run, on the
\* chunk that enters the call: the run holds an identifier exactly while it is
\* in a call, and every ToolCallDelta carries the identifier generated.
C14_IdGeneratedOnce ==
  /\ idCalls \in {0, 1}
  /\ inToolCall <=> currentToolCallId # NoId
  /\ inToolCall => currentToolCallId = idCalls
  /\ (inToolCall \/ closedCall) <=> idCalls = 1
  /\ \A i \in Indices(kinds, "delta") : DeltaOf(out, i).id = 1

\* a call that spans two messages has emitted deltas from both
C14_Witness ==
  /\ inToolCall
  /\ \E i, j \in Indices(kinds, "delta") : out[i][1].n # out[j][1].n

\* C15: events leave in the arrival order of the input they carry: the text of
\* a PlainText event starts with input of message bufferFrom, and a
\* pass-through event carries its own message; neither comes after an event of
\* a message that arrived later.
C15_ArrivalOrder ==
  /\ pc = "yPlain" => \A i \in 1..(Len(out) - 1) : out[i][1].n <= bufferFrom
  /\ pc = "yPass" => \A i \in 1..(Len(out) - 1) : out[i][1].n <= out[Len(out)][1].n

\* C16: the PlainText events never hold the opening marker.
C16_MarkerNeverPlain == ~Contains(OpenMarker, PlainConcat(out, kinds))

\* C17 as stated: no error ever reaches the consumer of the driver.
C17_NeverRaises == pc # "threw"

\* C17 amended: the driver raises nothing of its own: a chunk whose call text
\* resolves no name is suppressed, and an error reaches the consumer exactly
\* when the pull from upstream failed.
C17_RaisesOnlyUpstreamFailure ==
  /\ [](pc = "threw" <=> upFinal = "failed")
  /\ [][(pc = "chunk" /\ splitContent # <<>>) => pc' \in {"chunk", "yDelta", "yPlain"}]_vars

\* chunks of a call that resolve no name were suppressed without an error, and
\* the next pull failed
C17_Witness ==
  /\ pc = "threw"
  /\ inToolCall
  /\ toolCallText # <<>>
  /\ ~NameResolved(parsePartialXml(toolCallText))
  /\ out = <<>>

\* C18: every yielded value is a list of exactly one message: a pass-through
\* event is one upstream message, a PlainText event has no tool call, and a
\* ToolCallDelta event has empty content and exactly one tool call delta.
C18_SingleMessageLists ==
  \A i \in 1..Len(out) :
    /\ Len(out[i]) = 1
    /\ kinds[i] = "pass" => IsPassThrough(out[i][1])
    /\ kinds[i] = "plain" => out[i][1].toolCalls = <<>> /\ out[i][1].content # <<>>
    /\ kinds[i] = "delta" => out[i][1].content = <<>> /\ Len(out[i][1].toolCalls) = 1

\* a batch of two messages, a pass-through message first, was yielded as two
\* separate events
C18_Witness ==
  /\ Len(out) >= 2
  /\ \E i \in 1..(Len(out) - 1) :
       /\ kinds[i] = "pass"
       /\ kinds[i + 1] # "pass"
       /\ out[i + 1][1].n = out[i][1].n + 1
       /\ nmsg = out[i + 1][1].n
       /\ out[i][1].n = 1

\* C20: outside a call, a chunk that with the held buffer is neither a prefix
\* of the opening marker nor holds it is yielded at once as one PlainText event
\* whose content is the whole buffer, and when the generator is resumed the
\* buffer is empty and it is still outside a call.
C20_PlainFlushedAtOnce ==
  /\ [][(/\ pc = "chunk"
         /\ splitContent # <<>>
         /\ ~inToolCall
         /\ ~detectToolCallStart(buffer \o Head(splitContent)).isInPartialStart
         /\ ~detectToolCallStart(buffer \o Head(splitContent)).isInToolCall)
          => /\ out' = Append(out, <<PlainText(Head(batch), buffer \o Head(splitContent))>>)
             /\ kinds' = Append(kinds, "plain")
             /\ splitContent' = splitContent
             /\ pc' = "yPlain"]_vars
  /\ [][(pc = "yPlain" /\ pc' # pc)
          => /\ pc' = "chunk"
             /\ buffer' = <<>>
             /\ ~inToolCall'
             /\ toolCallText' = <<>>
             /\ splitContent' = Tail(splitContent)
             /\ out' = out]_vars

\* a held "<" and the "<" that followed it were flushed as one event, and the
\* next chunk found the buffer empty
C20_Witness ==
  /\ pc = "chunk"
  /\ buffer = <<>>
  /\ kinds # <<>>
  /\ kinds[Len(kinds)] = "plain"
  /\ out[Len(out)][1].content = <<"<", "<">>

\* ------------------------------------------ two invocations side by side
\* Each invocation of interceptXMLToolCalls has its own locals (lines 23-29);
\* the two share only the identifier generator.  A run is given its whole text
\* as one assistant message, and a step of a run is one iteration of its chunk
\* loop, so that the steps of the two runs interleave at every yield.
Runs == {1, 2}

StartRun(r, t, v) ==
  [d |-> InitialLocals,
   message |-> AssistantMessage(r, t),
   chunks |-> splitAtTagsAndCodeblocks(renderChatMessage(AssistantMessage(r, t))),
   out |-> <<>>, kinds |-> <<>>,
   id |-> NoId, final |-> v, ret |-> "pending"]

\* the locals a step of run r works on
StateOf_Shared(rs, r) == rs[1].d
StateOf(rs, r) == rs[r].d

InitRuns ==
  /\ runs \in {[r \in Runs |-> StartRun(r, ts[r], vs[r])] :
                 ts \in [Runs -> Texts], vs \in [Runs -> FinalValues]}
  /\ issued = 0
  /\ text = <<>>
  /\ pos = 0 /\ frags = 0 /\ passes = 0 /\ nmsg = 0
  /\ upFinal = "pending"
  /\ aborted = FALSE
  /\ pc = "top"
  /\ batch = <<>>
  /\ splitContent = <<>>
  /\ toolCallText = <<>>
  /\ currentToolCallId = NoId
  /\ currentToolCallArgs = <<>>
  /\ inToolCall = FALSE
  /\ done = FALSE
  /\ buffer = <<>>
  /\ out = <<>>
  /\ kinds = <<>>
  /\ retval = "pending"
  /\ pulled = FALSE /\ idCalls = 0 /\ abortedEarly = FALSE /\ closedCall = FALSE
  /\ inspected = {}
  /\ consumed = 0
  /\ passedIn = <<>>
  /\ dropped = {}
  /\ bufferFrom = 0
  /\ lateEvents = FALSE
  /\ styledSegments = <<>> /\ columns = 0 /\ segmentRows = <<>>
  /\ wrapPc = "idle" /\ segmentAt = 0 /\ segmentWords = <<>> /\ wordAt = 0
  /\ rowState = <<>> /\ wordRest = <<>>
  /\ ansiSegments = <<>> /\ currentPosition = [row |-> 0, col |-> 0]
  /\ currentStyle = [bold |-> FALSE] /\ rawOutput = <<>> /\ writes = 0

\* lines 52-130: run r takes its next chunk, up to the start of the one after
StepRun(r) ==
  /\ runs[r].ret = "pending"
  /\ runs[r].chunks # <<>>
  /\ ~StateOf(runs, r).done
  /\ \E p \in {ProcessChunk(StateOf(runs, r), Head(runs[r].chunks), runs[r].message,
                            issued + 1)} :
       \E d2 \in {CASE p.kind = "delta" -> AfterDelta(p.d)
                    [] p.kind = "plain" -> AfterPlain(p.d)
                    [] OTHER -> p.d} :
         \E fresh \in {p.d.currentToolCallId # StateOf(runs, r).currentToolCallId} :
           /\ runs' = [runs EXCEPT ![r].d = d2,
                                   ![r].chunks = Tail(@),
                                   ![r].out = @ \o p.yields,
                                   ![r].kinds = IF p.yields = <<>> THEN @
                                                ELSE Append(@, p.kind),
                                   ![r].id = IF fresh THEN issued + 1 ELSE @]
           /\ issued' = IF fresh THEN issued + 1 ELSE issued
  /\ UNCHANGED <<rendering, upstream, aborted, pc, iter, locals, out, kinds, retval, ghost>>

\* lines 36-38: the upstream of run r is exhausted
FinishRun(r) ==
  /\ runs[r].ret = "pending"
  /\ runs[r].chunks = <<>> \/ StateOf(runs, r).done
  /\ runs' = [runs EXCEPT ![r].ret = ReturnValue(runs[r].final)]
  /\ UNCHANGED <<rendering, issued, upstream, aborted, pc, iter, locals, out, kinds, retval, ghost>>

NextRuns ==
  \/ \E r \in Runs : StepRun(r)
  \/ \E r \in Runs : FinishRun(r)

SpecRuns == InitRuns /\ [][NextRuns]_vars

\* run r executed alone
Alone(r) ==
  RunChunks(InitialLocals, splitAtTagsAndCodeblocks(renderChatMessage(runs[r].message)),
            runs[r].message, [out |-> <<>>, kinds |-> <<>>])

\* the events o with the identifier id in place of the one they carry
WithId(o, id) ==
  [i \in 1..Len(o) |->
     [j \in 1..Len(o[i]) |->
        [o[i][j] EXCEPT !.toolCalls = [k \in 1..Len(@) |-> [@[k] EXCEPT !.id = id]]]]]

TakesChunkOutside == pc = "chunk" /\ splitContent # <<>> /\ ~inToolCall

\* the buffer holds a strict, non-empty prefix of the opening marker
HoldsPrefix ==
  /\ ~inToolCall
  /\ buffer # <<>>
  /\ buffer # OpenMarker
  /\ IsPrefix(buffer, OpenMarker)

\* C21: a chunk that leaves the buffer a strict non-empty prefix of the opening
\* marker is appended to the buffer and emits nothing; a held prefix is changed
\* by no step but the one that takes the next chunk, whatever messages and
\* batches come in between.
C21_PrefixHeld ==
  /\ [][(TakesChunkOutside
          /\ detectToolCallStart(buffer \o Head(splitContent)).isInPartialStart)
          => /\ out' = out
             /\ buffer' = buffer \o Head(splitContent)
             /\ ~inToolCall'
             /\ toolCallText' = toolCallText
             /\ pc' = "chunk"]_vars
  /\ [][(HoldsPrefix /\ ~(pc = "chunk" /\ splitContent # <<>>))
          => (buffer' = buffer /\ ~inToolCall')]_vars

\* the prefix "<tool_" was put together from two messages with a pass-through
\* message between them, and the driver awaits the next batch
C21_Witness ==
  /\ HoldsPrefix
  /\ buffer = <<"<", "tool_">>
  /\ pc = "await"
  /\ nmsg = 3
  /\ kinds # <<>>
  /\ kinds[Len(kinds)] = "pass"
  /\ bufferFrom = 1

\* C22: once the accumulated call text resolves a tool name, every chunk taken
\* inside the call emits exactly one ToolCallDelta, before done is set; after
\* the call has closed the last event emitted is still the delta of the
\* closing chunk.
C22_OneDeltaPerChunk ==
  /\ [][(/\ pc = "chunk"
         /\ splitContent # <<>>
         /\ inToolCall
         /\ parsePartialXml(toolCallText).tool_name # <<>>)
          => /\ Len(out') = Len(out) + 1
             /\ kinds' = Append(kinds, "delta")
             /\ pc' = "yDelta"
             /\ ~done']_vars
  /\ [](closedCall => (kinds # <<>> /\ kinds[Len(kinds)] = "delta"))

\* the call closed, and the delta of the closing chunk has empty arguments
C22_Witness ==
  /\ closedCall
  /\ done
  /\ kinds[Len(kinds)] = "delta"
  /\ DeltaOf(out, Len(out)).arguments = <<>>
  /\ Cardinality(Indices(kinds, "delta")) >= 3

\* C23: the signal is examined only at the head of the outer loop: done is set
\* by no other step but the one that closes a call, raising the signal changes
\* nothing else, and with the signal raised but not yet observed every message
\* reached is still passed on or handed to the chunk loop, none is dropped.
C23_CoarseCancellation ==
  /\ [][(done' /\ ~done)
          => \/ pc = "top" /\ aborted
             \/ pc = "yDelta" /\ Contains(CloseMarker, toolCallText)]_vars
  /\ [][(aborted' # aborted) => UNCHANGED <<pc, iter, locals, out, kinds>>]_vars
  /\ [][(aborted /\ ~done /\ pc = "msg" /\ batch # <<>>)
          => (pc' \in {"yPass", "chunk"} /\ dropped' = dropped)]_vars

\* events were emitted after the signal was raised, the batch was processed to
\* its end, and the next outer iteration observed the signal
C23_Witness ==
  /\ lateEvents
  /\ done
  /\ ~closedCall
  /\ pc = "await"
  /\ out # <<>>

\* the generator is suspended at a yield or at the await of the next batch
AtSuspension == pc \in {"await", "yDelta", "yPlain", "yPass"}

\* C24: wherever the generator is suspended, it holds an identifier exactly
\* when it is inside a call and the accumulated call text is empty outside a
\* call; the step that leaves the call clears the call text, the identifier
\* and the previous arguments and sets done, and done is set after a delta by
\* no other step.
C24_CallStateTogether ==
  /\ [](AtSuspension
          => /\ (currentToolCallId # NoId) <=> inToolCall
             /\ toolCallText # <<>> => inToolCall)
  /\ [][((inToolCall /\ ~inToolCall') \/ (pc = "yDelta" /\ done' /\ ~done))
          => /\ ~inToolCall'
             /\ toolCallText' = <<>>
             /\ currentToolCallId' = NoId
             /\ currentToolCallArgs' = <<>>
             /\ done'
             /\ ~done]_vars

\* a call that had emitted deltas with arguments was closed, and the driver
\* awaits the next batch with the call state cleared
C24_Witness ==
  /\ closedCall
  /\ pc = "await"
  /\ toolCallText = <<>>
  /\ currentToolCallId = NoId
  /\ idCalls = 1
  /\ ArgsConcat(out, kinds) # <<>>

\* how many atoms of the text lie before the content of its first call
CallStart == IndexOf(OpenMarker, text) + Len(OpenMarker) - 1

\* C25: inside a call the accumulated call text is the text the chunk loop has
\* taken since the opening marker, every chunk once and in order, and between
\* chunks the working buffer is empty.
C25_AccumulatorIsCallText ==
  inToolCall
    => /\ toolCallText = SubSeq(text, CallStart + 1, consumed)
       /\ pc # "yDelta" => buffer = <<>>

\* inside a call whose text came in two messages, chunks were taken before the
\* name resolved and after it
C25_Witness ==
  /\ inToolCall
  /\ pc = "chunk"
  /\ Head(batch).n = 2
  /\ Indices(kinds, "delta") # {}
  /\ out[Len(out)][1].n = 2
  /\ \E i \in Indices(kinds, "delta") : out[i][1].n = 1
  /\ Len(toolCallText) > Cardinality(Indices(kinds, "delta")) + 2

\* C26: the previous arguments are empty before the first ToolCallDelta, after
\* a ToolCallDelta they are the serialized arguments of the parse that gave it
\* (empty when that parse has no arguments), and a step that emits nothing
\* and does not resume from a delta leaves them as they are.
C26_PreviousArgs ==
  /\ [](Indices(kinds, "delta") = {} => currentToolCallArgs = <<>>)
  /\ [](pc = "yDelta"
          => currentToolCallArgs =
               IF Truthy(parsePartialXml(toolCallText).args)
                 THEN Stringify(parsePartialXml(toolCallText).args)
                 ELSE <<>>)
  /\ [][(out' = out /\ pc # "yDelta") => currentToolCallArgs' = currentToolCallArgs]_vars

\* a delta was just emitted for a parse with a name and no arguments, after
\* chunks that emitted nothing
C26_Witness ==
  /\ pc = "yDelta"
  /\ currentToolCallArgs = <<>>
  /\ ~Truthy(parsePartialXml(toolCallText).args)
  /\ Cardinality(Indices(kinds, "delta")) = 1
  /\ Len(toolCallText) >= 5

\* C27: done is never cleared, a done driver emits nothing and still reaches
\* the pull of the next batch, the driver returns only when upstream is
\* exhausted, and every run whose upstream ends (by its final value, or by a
\* failed pull) ends too.
C27_DoneMonotoneAndReturns ==
  /\ [][done => (done' /\ out' = out)]_vars
  /\ [](pc = "ret" <=> upFinal \in FinalValues)
  /\ [](done => <>(pc \in {"await", "ret", "threw"}))
  /\ <>(pc \in {"ret", "threw"})

\* a cancelled run dropped the batches that followed and returned when
\* upstream was exhausted
C27_Witness ==
  /\ pc = "ret"
  /\ done
  /\ aborted
  /\ ~closedCall
  /\ dropped # {}
  /\ pos = Len(text)

\* C28: with done set, a message the loop reaches is dropped with the rest of
\* its batch: the step emits nothing and hands nothing to the splitter, and no
\* event ever consists of a dropped message, pass-through messages included.
C28_DoneDropsEverything ==
  /\ [][(done /\ pc = "msg" /\ batch # <<>>)
          => /\ out' = out
             /\ inspected' = inspected
             /\ batch' = <<>>
             /\ pc' = "top"
             /\ \A i \in 1..Len(batch) : batch[i].n \in dropped']_vars
  /\ [](\A i \in 1..Len(out) : out[i][1].n \notin dropped)
  /\ [](dropped # {} => done)

\* the call closed in the first message of a batch, and the pass-through
\* message that followed it in the same batch was dropped
C28_Witness ==
  /\ closedCall
  /\ done
  /\ pc = "top"
  /\ \E i \in 1..Len(passedIn) :
       /\ passedIn[i].n \in dropped
       /\ passedIn[i].n = nmsg
       /\ kinds[Len(kinds)] = "delta"
       /\ out[Len(out)][1].n = nmsg - 1

\* C29: the step that yields a pass-through message and the step that resumes
\* from that yield leave the buffer, the accumulated call text, the
\* identifier, the previous arguments and the in-call and done flags as they
\* are.
C29_PassThroughKeepsState ==
  [][((pc = "msg" /\ pc' = "yPass") \/ (pc = "yPass" /\ pc' # "yPass"))
       => /\ buffer' = buffer
          /\ toolCallText' = toolCallText
          /\ currentToolCallId' = currentToolCallId
          /\ currentToolCallArgs' = currentToolCallArgs
          /\ inToolCall' = inToolCall
          /\ done' = done]_vars

\* a pass-through message came while a prefix of the opening marker was held;
\* it was yielded and the generator resumed with the prefix still held
C29_Witness ==
  /\ pc = "msg"
  /\ HoldsPrefix
  /\ kinds # <<>>
  /\ kinds[Len(kinds)] = "pass"
  /\ out[Len(out)][1].n > bufferFrom
  /\ bufferFrom > 0

\* ------------------------------------------------- rows of styled segments
\* src/extensions/cli/src/ui/MarkdownProcessor.tsx, splitStyledSegmentsIntoRows.
\* A text is a sequence of characters.
NL == "\n"
Space == " "
Chars == {"a", Space, NL}

\* the longest text of a segment and the longest list of segments
MaxText == 3
MaxSegments == 2

\* terminalWidth; the available width is 6 less.  At a width of 6 or less the
\* loop of lines 378-386 takes nothing off the word and never ends, so the
\* function returns for none of these widths once a word does not fit.
Widths == 7..9

SegmentTexts == UNION {[1..n -> Chars] : n \in 0..MaxText}

\* styling: { type: "text" } and { bold: true, type: "heading" }
Stylings ==
  { [type |-> "text", bold |-> "undefined", italic |-> "undefined", color |-> "undefined"],
    [type |-> "heading", bold |-> TRUE, italic |-> "undefined", color |-> "undefined"] }

StyledSegment(t, styling) == [text |-> t, styling |-> styling]

StyledSegments == {StyledSegment(t, s) : t \in SegmentTexts, s \in Stylings}

SegmentLists == UNION {[1..n -> StyledSegments] : n \in 1..MaxSegments}

\* String.split(sep) for a separator of one character
RECURSIVE Split(_, _)
Split(t, sep) ==
  IF IndexOf(<<sep>>, t) = 0 THEN <<t>>
  ELSE <<SubSeq(t, 1, IndexOf(<<sep>>, t) - 1)>> \o Split(Drop(t, IndexOf(<<sep>>, t)), sep)

\* line ? [{ text: line, styling }] : []
RowOfLine(line, styling) ==
  IF line # <<>> THEN <<StyledSegment(line, styling)>> ELSE <<>>

\* lines 255-257
NoRows == [rows |-> <<>>, currentRow |-> <<>>, currentRowLength |-> 0]

\* lines 281-283, 370-372
PushCurrentRow(st) ==
  IF st.currentRow # <<>> THEN Append(st.rows, st.currentRow) ELSE st.rows

\* lines 269-300: the first line of a segment with newlines
FirstLine(st, line, isLast, styling, availableWidth) ==
  LET placed ==
        IF st.currentRowLength + Len(line) <= availableWidth
          THEN [rows |-> st.rows,
                currentRow |-> st.currentRow \o RowOfLine(line, styling),
                currentRowLength |-> st.currentRowLength + Len(line)]
          ELSE [rows |-> PushCurrentRow(st),
                currentRow |-> RowOfLine(line, styling),
                currentRowLength |-> Len(line)]
  IN IF ~isLast
       THEN [rows |-> Append(placed.rows, placed.currentRow),
             currentRow |-> <<>>, currentRowLength |-> 0]
       ELSE placed

\* lines 301-311: the last line starts a new row
LastLine(st, line, styling) ==
  [rows |-> st.rows, currentRow |-> RowOfLine(line, styling),
   currentRowLength |-> Len(line)]

\* lines 312-324: a middle line gets a row of its own
MiddleLine(st, line, styling, availableWidth) ==
  [st EXCEPT !.rows = Append(@, RowOfLine(line, styling))]

\* lines 266-325: the lines from the i-th on (i counts from 0 as in the code)
RECURSIVE PlaceLines(_, _, _, _, _)
PlaceLines(st, lines, i, styling, availableWidth) ==
  IF i >= Len(lines) THEN st
  ELSE PlaceLines(
         IF i = 0
           THEN FirstLine(st, lines[i + 1], i = Len(lines) - 1, styling, availableWidth)
         ELSE IF i = Len(lines) - 1
           THEN LastLine(st, lines[i + 1], styling)
         ELSE MiddleLine(st, lines[i + 1], styling, availableWidth),
         lines, i + 1, styling, availableWidth)

\* lines 346-356
SameStyling(a, b) ==
  /\ a.type = b.type
  /\ a.bold = b.bold
  /\ a.italic = b.italic
  /\ a.color = b.color

\* lines 344-367: the word fits in the current row
AddToRow(st, textToAdd, styling) ==
  [rows |-> st.rows,
   currentRow |->
     IF /\ st.currentRow # <<>>
        /\ SameStyling(st.currentRow[Len(st.currentRow)].styling, styling)
       THEN [st.currentRow EXCEPT ![Len(st.currentRow)].text = @ \o textToAdd]
       ELSE Append(st.currentRow, StyledSegment(textToAdd, styling)),
   currentRowLength |-> st.currentRowLength + Len(textToAdd)]

\* lines 377-395: a word longer than the available width is cut into rows of
\* that width and its rest starts the current row (availableWidth >= 1)
RECURSIVE SplitLongWord(_, _, _, _)
SplitLongWord(rows, remainingWord, styling, availableWidth) ==
  IF Len(remainingWord) > availableWidth
    THEN SplitLongWord(
           Append(rows, <<StyledSegment(SubSeq(remainingWord, 1, availableWidth), styling)>>),
           Drop(remainingWord, availableWidth), styling, availableWidth)
    ELSE [rows |-> rows, currentRow |-> RowOfLine(remainingWord, styling),
          currentRowLength |-> Len(remainingWord)]

\* lines 333-405: one word of a segment without newlines
PlaceWord(st, word, i, styling, availableWidth) ==
  LET needsSpaceBefore == (st.currentRowLength > 0 /\ i = 0) \/ i > 0
      spaceToAdd == IF needsSpaceBefore THEN <<Space>> ELSE <<>>
      totalLength == Len(word) + Len(spaceToAdd)
  IN IF st.currentRowLength + totalLength <= availableWidth
       THEN AddToRow(st, spaceToAdd \o word, styling)
     ELSE IF Len(word) > availableWidth
       THEN SplitLongWord(PushCurrentRow(st), word, styling, availableWidth)
     ELSE [rows |-> PushCurrentRow(st),
           currentRow |-> <<StyledSegment(word, styling)>>,
           currentRowLength |-> Len(word)]

\* lines 332-406
RECURSIVE PlaceWords(_, _, _, _, _)
PlaceWords(st, words, i, styling, availableWidth) ==
  IF i >= Len(words) THEN st
  ELSE PlaceWords(PlaceWord(st, words[i + 1], i, styling, availableWidth),
                  words, i + 1, styling, availableWidth)

\* lines 260-406: one segment
PlaceSegment(st, segment, availableWidth) ==
  IF Contains(<<NL>>, segment.text)
    THEN PlaceLines(st, Split(segment.text, NL), 0, segment.styling, availableWidth)
    ELSE PlaceWords(st, Split(segment.text, Space), 0, segment.styling, availableWidth)

\* lines 259-407
RECURSIVE PlaceSegments(_, _, _)
PlaceSegments(st, segments, availableWidth) ==
  IF segments = <<>> THEN st
  ELSE PlaceSegments(PlaceSegment(st, Head(segments), availableWidth),
                     Tail(segments), availableWidth)

\* lines 409-414
FinalRows(st) ==
  IF st.currentRow # <<>> \/ st.rows = <<>>
    THEN Append(st.rows, st.currentRow) ELSE st.rows

\* lines 250-415
splitStyledSegmentsIntoRows(segments, terminalWidth) ==
  FinalRows(PlaceSegments(NoRows, segments, terminalWidth - 6))

\* the total text length of a row
RECURSIVE RowLength(_)
RowLength(row) ==
  IF row = <<>> THEN 0 ELSE Len(Head(row).text) + RowLength(Tail(row))

\* The renderer: it is handed the segments of a message and the width of the
\* terminal, and splits them into rows once (line 731).
InitRows ==
  /\ styledSegments \in SegmentLists
  /\ columns \in Widths
  /\ segmentRows = <<>>
  /\ wrapPc = "idle" /\ segmentAt = 0 /\ segmentWords = <<>> /\ wordAt = 0
  /\ rowState = <<>> /\ wordRest = <<>>
  /\ ansiSegments = <<>> /\ currentPosition = [row |-> 0, col |-> 0]
  /\ currentStyle = [bold |-> FALSE] /\ rawOutput = <<>> /\ writes = 0
  /\ runs = <<>>
  /\ issued = 0
  /\ text = <<>>
  /\ pos = 0 /\ frags = 0 /\ passes = 0 /\ nmsg = 0
  /\ upFinal = "pending"
  /\ aborted = FALSE
  /\ pc = "top"
  /\ batch = <<>>
  /\ splitContent = <<>>
  /\ toolCallText = <<>>
  /\ currentToolCallId = NoId
  /\ currentToolCallArgs = <<>>
  /\ inToolCall = FALSE
  /\ done = FALSE
  /\ buffer = <<>>
  /\ out = <<>>
  /\ kinds = <<>>
  /\ retval = "pending"
  /\ pulled = FALSE /\ idCalls = 0 /\ abortedEarly = FALSE /\ closedCall = FALSE
  /\ inspected = {}
  /\ consumed = 0
  /\ passedIn = <<>>
  /\ dropped = {}
  /\ bufferFrom = 0
  /\ lateEvents = FALSE

\* line 731; the function returns at least one row, so <<>> is "not yet split"
SplitIntoRows ==
  /\ segmentRows = <<>>
  /\ segmentRows' \in {splitStyledSegmentsIntoRows(styledSegments, columns)}
  /\ UNCHANGED <<styledSegments, columns, wrapping, ansi, sessions, upstream, aborted, pc, iter, locals,
                 out, kinds, retval, ghost>>

NextRows == SplitIntoRows

SpecRows == InitRows /\ [][NextRows]_vars

\* C30: every row splitStyledSegmentsIntoRows returns fits the available
\* width: the total text length of each row is at most terminalWidth - 6, the
\* rows made from segments with newlines included.
C30_RowsFitWidth ==
  \A r \in 1..Len(segmentRows) : RowLength(segmentRows[r]) <= columns - 6

\* ---------------------------------------- the rows function, step by step
\* splitStyledSegmentsIntoRows run one word at a time, with the loop of lines
\* 378-386 one iteration at a time, for widths that leave no room as well.
WrapWidths == 5..7

\* the longest text of a segment of a run taken step by step
MaxWrapText == 2

WrapSegmentLists ==
  {l \in SegmentLists : \A k \in 1..Len(l) : Len(l[k].text) <= MaxWrapText}

\* A row more than this and the array of rows no longer fits in memory.  A run
\* that returns makes at most MaxText + 1 rows per segment and one at the end.
MaxRows == (MaxText + 1) * MaxSegments + 1

\* String.substring(from, to) and String.substring(from): an index below 0 is
\* taken as 0, one above the length as the length
Clamp(t, k) == IF k < 0 THEN 0 ELSE IF k > Len(t) THEN Len(t) ELSE k
Substring(t, from, to) ==
  IF Clamp(t, from) <= Clamp(t, to)
    THEN SubSeq(t, Clamp(t, from) + 1, Clamp(t, to))
    ELSE SubSeq(t, Clamp(t, to) + 1, Clamp(t, from))
SubstringFrom(t, from) == Drop(t, Clamp(t, from))

\* lines 255-257, at the head of the loop of line 259
InitWrap ==
  /\ styledSegments \in WrapSegmentLists
  /\ columns \in WrapWidths
  /\ segmentRows = <<>>
  /\ wrapPc = "segment"
  /\ segmentAt = 1
  /\ segmentWords = <<>>
  /\ wordAt = 0
  /\ rowState = NoRows
  /\ wordRest = <<>>
  /\ ansiSegments = <<>> /\ currentPosition = [row |-> 0, col |-> 0]
  /\ currentStyle = [bold |-> FALSE] /\ rawOutput = <<>> /\ writes = 0
  /\ runs = <<>>
  /\ issued = 0
  /\ text = <<>>
  /\ pos = 0 /\ frags = 0 /\ passes = 0 /\ nmsg = 0
  /\ upFinal = "pending"
  /\ aborted = FALSE
  /\ pc = "top"
  /\ batch = <<>>
  /\ splitContent = <<>>
  /\ toolCallText = <<>>
  /\ currentToolCallId = NoId
  /\ currentToolCallArgs = <<>>
  /\ inToolCall = FALSE
  /\ done = FALSE
  /\ buffer = <<>>
  /\ out = <<>>
  /\ kinds = <<>>
  /\ retval = "pending"
  /\ pulled = FALSE /\ idCalls = 0 /\ abortedEarly = FALSE /\ closedCall = FALSE
  /\ inspected = {}
  /\ consumed = 0
  /\ passedIn = <<>>
  /\ dropped = {}
  /\ bufferFrom = 0
  /\ lateEvents = FALSE

Driver == <<sessions, upstream, aborted, pc, iter, locals, out, kinds, retval, ghost>>

\* lines 259-327: a segment with newlines is rowState line by line
NewlineSegment ==
  /\ wrapPc = "segment"
  /\ segmentAt <= Len(styledSegments)
  /\ Contains(<<NL>>, styledSegments[segmentAt].text)
  /\ rowState' \in {PlaceLines(rowState, Split(styledSegments[segmentAt].text, NL), 0,
                             styledSegments[segmentAt].styling, columns - 6)}
  /\ segmentAt' = segmentAt + 1
  /\ UNCHANGED <<styledSegments, columns, segmentRows, wrapPc, segmentWords, wordAt,
                 wordRest, ansi, Driver>>

\* lines 259-263, 330-332: a segment without newlines is split into words
WordSegment ==
  /\ wrapPc = "segment"
  /\ segmentAt <= Len(styledSegments)
  /\ ~Contains(<<NL>>, styledSegments[segmentAt].text)
  /\ segmentWords' \in {Split(styledSegments[segmentAt].text, Space)}
  /\ wordAt' = 0
  /\ wrapPc' = "word"
  /\ UNCHANGED <<styledSegments, columns, segmentRows, segmentAt, rowState,
                 wordRest, ansi, Driver>>

\* line 332: the segment has no further word
WordsEnd ==
  /\ wrapPc = "word"
  /\ wordAt >= Len(segmentWords)
  /\ segmentAt' = segmentAt + 1
  /\ wrapPc' = "segment"
  /\ UNCHANGED <<styledSegments, columns, segmentRows, segmentWords, wordAt, rowState,
                 wordRest, ansi, Driver>>

\* lines 338-342, 368, 375
FitsRow(word, i) ==
  rowState.currentRowLength + Len(word)
    + (IF (rowState.currentRowLength > 0 /\ i = 0) \/ i > 0 THEN 1 ELSE 0) <= columns - 6
IsLongWord(word) == Len(word) > columns - 6

\* lines 333-367, 396-404: a word that fits the row, or fits a row of its own
ShortWord ==
  /\ wrapPc = "word"
  /\ wordAt < Len(segmentWords)
  /\ FitsRow(segmentWords[wordAt + 1], wordAt) \/ ~IsLongWord(segmentWords[wordAt + 1])
  /\ rowState' \in {PlaceWord(rowState, segmentWords[wordAt + 1], wordAt,
                            styledSegments[segmentAt].styling, columns - 6)}
  /\ wordAt' = wordAt + 1
  /\ UNCHANGED <<styledSegments, columns, segmentRows, wrapPc, segmentAt, segmentWords,
                 wordRest, ansi, Driver>>

\* lines 368-377: a word longer than the available width enters the loop
LongWord ==
  /\ wrapPc = "word"
  /\ wordAt < Len(segmentWords)
  /\ ~FitsRow(segmentWords[wordAt + 1], wordAt)
  /\ IsLongWord(segmentWords[wordAt + 1])
  /\ rowState' = [rowState EXCEPT !.rows = PushCurrentRow(rowState)]
  /\ wordRest' = segmentWords[wordAt + 1]
  /\ wrapPc' = "loop"
  /\ UNCHANGED <<styledSegments, columns, segmentRows, segmentAt, segmentWords, wordAt, ansi, Driver>>

\* lines 378-386: one iteration of the loop
CutWord ==
  /\ wrapPc = "loop"
  /\ Len(wordRest) > columns - 6
  /\ Len(rowState.rows) < MaxRows
  /\ rowState' = [rowState EXCEPT !.rows =
                  Append(@, <<StyledSegment(Substring(wordRest, 0, columns - 6),
                                            styledSegments[segmentAt].styling)>>)]
  /\ wordRest' = SubstringFrom(wordRest, columns - 6)
  /\ UNCHANGED <<styledSegments, columns, segmentRows, wrapPc, segmentAt, segmentWords, wordAt,
                 ansi, Driver>>

\* line 379: the push fails when the rows no longer fit in memory
OutOfMemory ==
  /\ wrapPc = "loop"
  /\ Len(wordRest) > columns - 6
  /\ Len(rowState.rows) >= MaxRows
  /\ wrapPc' = "outOfMemory"
  /\ UNCHANGED <<styledSegments, columns, segmentRows, segmentAt, segmentWords, wordAt, rowState,
                 wordRest, ansi, Driver>>

\* lines 378, 387-395: the rest of the word starts the current row
WordCut ==
  /\ wrapPc = "loop"
  /\ Len(wordRest) <= columns - 6
  /\ rowState' = [rowState EXCEPT
                  !.currentRow = RowOfLine(wordRest, styledSegments[segmentAt].styling),
                  !.currentRowLength = Len(wordRest)]
  /\ wordRest' = <<>>
  /\ wordAt' = wordAt + 1
  /\ wrapPc' = "word"
  /\ UNCHANGED <<styledSegments, columns, segmentRows, segmentAt, segmentWords, ansi, Driver>>

\* lines 409-414
ReturnRows ==
  /\ wrapPc = "segment"
  /\ segmentAt > Len(styledSegments)
  /\ segmentRows' = FinalRows(rowState)
  /\ wrapPc' = "returned"
  /\ UNCHANGED <<styledSegments, columns, segmentAt, segmentWords, wordAt, rowState,
                 wordRest, ansi, Driver>>

NextWrap ==
  \/ NewlineSegment
  \/ WordSegment
  \/ WordsEnd
  \/ ShortWord
  \/ LongWord
  \/ CutWord
  \/ OutOfMemory
  \/ WordCut
  \/ ReturnRows

SpecWrap == InitWrap /\ [][NextWrap]_vars

\* the function is synchronous code: started, it runs until it returns or fails
LiveWrap == SpecWrap /\ WF_vars(NextWrap)

\* C31: splitStyledSegmentsIntoRows terminates for every input, widths of 6 or
\* less with a non-empty word included: every iteration of the long-word loop
\* shortens the rest of the word, and the function returns.
C31_LoopProgressAndReturn ==
  /\ [][(wrapPc = "loop" /\ wrapPc' = "loop") => Len(wordRest') < Len(wordRest)]_vars
  /\ <>(wrapPc = "returned")

\* ------------------------------------------------------ AnsiParsingStream
\* src/unnamed/part_000.  Written data is a sequence of characters; an escape
\* sequence matched by ansiRegex (line 51) is one atom.
CR == "\r"
BoldOn == "ESC[1m"
ResetAll == "ESC[0m"
EscapeSequences == {BoldOn, ResetAll}
DataChars == {"a", NL, CR, BoldOn, ResetAll}

\* the longest chunk written and the number of writes
MaxData == 3
MaxWrites == 2

WrittenData == UNION {[1..n -> DataChars] : n \in 1..MaxData}

\* lines 30-41, with bold for the eight attributes
DefaultStyle == [bold |-> FALSE]

\* lines 83-88, 96-101, 112-117
TextSegment(currentText, currentRow, currentCol, style) ==
  [text |-> currentText,
   position |-> [row |-> currentRow, col |-> currentCol],
   endPosition |-> [row |-> currentRow, col |-> currentCol + Len(currentText) - 1],
   style |-> style]

\* lines 82-90, 95-103
PushText(segs, currentText, currentRow, currentCol, style) ==
  IF Len(currentText) > 0
    THEN Append(segs, TextSegment(currentText, currentRow, currentCol, style))
    ELSE segs

\* lines 78-122: the characters of t from the i-th on (i from 1)
RECURSIVE AddChars(_, _, _, _, _, _, _)
AddChars(segs, currentText, currentRow, currentCol, t, i, style) ==
  IF i > Len(t)
    THEN [segments |-> PushText(segs, currentText, currentRow, currentCol, style),
          position |-> [row |-> currentRow, col |-> currentCol + Len(currentText)]]
  ELSE IF t[i] = NL
    THEN AddChars(PushText(segs, currentText, currentRow, currentCol, style),
                  <<>>, currentRow + 1, 0, t, i + 1, style)
  ELSE IF t[i] = CR
    THEN AddChars(PushText(segs, currentText, currentRow, currentCol, style),
                  <<>>, currentRow, 0, t, i + 1, style)
  ELSE AddChars(segs, Append(currentText, t[i]), currentRow, currentCol, t, i + 1, style)

\* lines 71-123; st is the stream: segments, currentPosition, currentStyle
addTextSegment(st, t) ==
  IF t = <<>> THEN st
  ELSE [segments |-> AddChars(st.segments, <<>>, st.position.row, st.position.col,
                              t, 1, st.style).segments,
        position |-> AddChars(st.segments, <<>>, st.position.row, st.position.col,
                              t, 1, st.style).position,
        style |-> st.style]

\* lines 125-182: only the command m changes the style
processEscapeSequence(st, sequence) ==
  [st EXCEPT !.style = IF sequence = BoldOn THEN [bold |-> TRUE] ELSE DefaultStyle]

\* the index of the first escape sequence of data from lastIndex on, 0 if none
NextEscape(data, lastIndex) ==
  IF \E k \in (lastIndex + 1)..Len(data) : data[k] \in EscapeSequences
    THEN CHOOSE k \in (lastIndex + 1)..Len(data) :
           /\ data[k] \in EscapeSequences
           /\ \A j \in (lastIndex + 1)..(k - 1) : data[j] \notin EscapeSequences
    ELSE 0

\* lines 50-69; lastIndex counts the characters consumed
RECURSIVE parseAnsiSequences(_, _, _)
parseAnsiSequences(st, data, lastIndex) ==
  IF NextEscape(data, lastIndex) = 0
    THEN addTextSegment(st, SubSeq(data, lastIndex + 1, Len(data)))
    ELSE parseAnsiSequences(
           processEscapeSequence(
             addTextSegment(st, SubSeq(data, lastIndex + 1, NextEscape(data, lastIndex) - 1)),
             data[NextEscape(data, lastIndex)]),
           data, NextEscape(data, lastIndex))

\* lines 195-205: the segments of a row in the order of a stable sort by column
RowSegments(segs, row) == SelectSeq(segs, LAMBDA s : s.position.row = row)
Before(l, i, j) ==
  \/ l[i].position.col < l[j].position.col
  \/ l[i].position.col = l[j].position.col /\ i < j
SortedByCol(l) ==
  [k \in 1..Len(l) |->
     l[CHOOSE i \in 1..Len(l) : Cardinality({j \in 1..Len(l) : Before(l, j, i)}) = k - 1]]

\* lines 217-229: the lines in the order of their rows
LineNumbers(segs) == {segs[k].position.row : k \in 1..Len(segs)}
NthLine(rows, n) == CHOOSE r \in rows : Cardinality({q \in rows : q < r}) = n - 1
FormattedSegment(segment) ==
  [text |-> segment.text, startCol |-> segment.position.col,
   endCol |-> segment.endPosition.col, style |-> segment.style]

\* lines 192-232
getFormattedLines(segs) ==
  [n \in 1..Cardinality(LineNumbers(segs)) |->
     [line |-> NthLine(LineNumbers(segs), n),
      segments |->
        [k \in 1..Len(RowSegments(segs, NthLine(LineNumbers(segs), n))) |->
           FormattedSegment(
             SortedByCol(RowSegments(segs, NthLine(LineNumbers(segs), n)))[k])]]]

\* lines 20-24: a new stream
InitAnsi ==
  /\ ansiSegments = <<>>
  /\ currentPosition = [row |-> 0, col |-> 0]
  /\ currentStyle = DefaultStyle
  /\ rawOutput = <<>>
  /\ writes = 0
  /\ styledSegments = <<>> /\ columns = 0 /\ segmentRows = <<>>
  /\ wrapPc = "idle" /\ segmentAt = 0 /\ segmentWords = <<>> /\ wordAt = 0
  /\ rowState = <<>> /\ wordRest = <<>>
  /\ runs = <<>>
  /\ issued = 0
  /\ text = <<>>
  /\ pos = 0 /\ frags = 0 /\ passes = 0 /\ nmsg = 0
  /\ upFinal = "pending"
  /\ aborted = FALSE
  /\ pc = "top"
  /\ batch = <<>>
  /\ splitContent = <<>>
  /\ toolCallText = <<>>
  /\ currentToolCallId = NoId
  /\ currentToolCallArgs = <<>>
  /\ inToolCall = FALSE
  /\ done = FALSE
  /\ buffer = <<>>
  /\ out = <<>>
  /\ kinds = <<>>
  /\ retval = "pending"
  /\ pulled = FALSE /\ idCalls = 0 /\ abortedEarly = FALSE /\ closedCall = FALSE
  /\ inspected = {}
  /\ consumed = 0
  /\ passedIn = <<>>
  /\ dropped = {}
  /\ bufferFrom = 0
  /\ lateEvents = FALSE

\* the stream as the record the operators work on
Stream == [segments |-> ansiSegments, position |-> currentPosition, style |-> currentStyle]

\* lines 43-48: a chunk is written
Write ==
  /\ writes < MaxWrites
  /\ writes' = writes + 1
  /\ \E data \in WrittenData :
       /\ rawOutput' = rawOutput \o data
       /\ \E st \in {parseAnsiSequences(Stream, data, 0)} :
            /\ ansiSegments' = st.segments
            /\ currentPosition' = st.position
            /\ currentStyle' = st.style
  /\ UNCHANGED <<styledSegments, columns, segmentRows, wrapping, Driver>>

NextAnsi == Write

SpecAnsi == InitAnsi /\ [][NextAnsi]_vars

\* C32: after any writes, the segments of each line getFormattedLines returns
\* are ordered by column and do not overlap: each starts at least one column
\* after the end of the one before it, carriage returns and newlines after
\* text within one written run included.
C32_SegmentsDoNotOverlap ==
  \A n \in 1..Len(getFormattedLines(ansiSegments)) :
    \A k \in 2..Len(getFormattedLines(ansiSegments)[n].segments) :
      getFormattedLines(ansiSegments)[n].segments[k].startCol
        >= getFormattedLines(ansiSegments)[n].segments[k - 1].endCol + 1

====
